---- MODULE Spec2Model ----
(***************************************************************************)
(* A model of the DOM element mirror of browserker's browser package       *)
(* (scanner/browser/element.go).  One Element is shared by two goroutines: *)
(* the caller (queries and actions) and the event-delivery path of the Tab *)
(* (population and change events).  A section of code that runs between    *)
(* Lock/RLock and the matching unlock without a remote command is one      *)
(* action; every remote command and every access made outside the lock is  *)
(* a step of its own.                                                      *)
(*                                                                         *)
(* The second part models the engine that drives the scan                  *)
(* (scanner/browserk_scanner.go) as the crawler command runs it            *)
(* (clicmds/crawler.go): Init, the loop of Start, Stop, the signal handler *)
(* and processEntries.                                                     *)
(***************************************************************************)
EXTENDS Integers, Sequences, FiniteSets, TLC

VARIABLES
    e,          \* the fields of the Element, its readyGate included
    lock,       \* e.lock, a sync.RWMutex: its writer and its readers
    tab,        \* what the Element uses of its Tab: exitCh
    pc,         \* where each goroutine stands
    frame,      \* the locals of the call each goroutine is in
    ret,        \* what each goroutine's last call returned
    inflight,   \* the remote command each goroutine waits for
    b           \* the Browserk engine, its graphs, its pool and its goroutines

vars == <<e, lock, tab, pc, frame, ret, inflight, b>>

----------------------------------------------------------------------------
\* Bounds of the model

\* the longest content quad DOM.getBoxModel answers when the centre of the
\* Element is asked for, in values
MaxPoints == 3
\* the largest coordinate of such a quad, in half pixels
MaxHalf == 3
\* addChild is not offered once the children list is this long
MaxChildren == 3
\* the largest count a ChildNodeCountUpdated event carries
MaxCount == 2
\* the largest cfg.NumBrowsers a configuration file sets
MaxBrowsers == 2
\* the most navigations the crawl graph is seeded with
MaxNavs == 3
\* the ticker of the state monitor is followed for this many ticks
MaxTicks == 2
\* Stop is called from outside the crawler command this many times at most
MaxStops == 2
\* the most key events SendRawKeys has to dispatch
MaxKeys == 2

----------------------------------------------------------------------------
\* Constants of the program

NodeElement == 1
NodeText == 3
NodeDocument == 9

ErrNil == "nil"
ErrElementNotReady == "ErrElementNotReady"
ErrInvalidElement == "ErrInvalidElement"
ErrElementHasNoChildren == "ErrElementHasNoChildren"
ErrIncorrectElementType == "ErrIncorrectElementType"
ErrInvalidDimensions == "ErrInvalidDimensions"
\* an error returned by the remote debugger client (gcd)
ErrRemote == "ErrRemote"

Threads == {"caller", "events"}
NoThread == "none"

\* strings.ToLower on the node names of the model
ToLower(s) ==
    CASE s = "INPUT" -> "input"
      [] s = "TEXTAREA" -> "textarea"
      [] s = "DIV" -> "div"
      [] OTHER -> s

\* a gcdapi.DOMNode: the fields the Element reads.  Children holds the node
\* ids of the child nodes; ChildrenNil says the slice is nil.
\* ContentDocument is the node id of the content document, 0 when it is nil.
DOMNode(id, type, name, value, count, attrs, kids, kidsNil, frameId) ==
    [IsNil |-> FALSE, NodeId |-> id, NodeType |-> type, NodeName |-> name,
     NodeValue |-> value, ChildNodeCount |-> count, Attributes |-> attrs,
     Children |-> kids, ChildrenNil |-> kidsNil, FrameId |-> frameId,
     ContentDocument |-> 0]

\* the nil *gcdapi.DOMNode
NilNode ==
    [IsNil |-> TRUE, NodeId |-> 0, NodeType |-> 0, NodeName |-> "",
     NodeValue |-> "", ChildNodeCount |-> 0, Attributes |-> <<>>,
     Children |-> <<>>, ChildrenNil |-> TRUE, FrameId |-> "",
     ContentDocument |-> 0]

\* the nodes the debugger sends in the model
DOMNodes ==
    { DOMNode(1, NodeElement, "INPUT", "", 0, <<"disabled", "">>, <<>>, TRUE, ""),
      DOMNode(1, NodeText, "#text", "hi", 0, <<>>, <<>>, TRUE, ""),
      DOMNode(2, NodeElement, "DIV", "", 2, <<>>, <<3, 4>>, FALSE, ""),
      DOMNode(2, NodeDocument, "#document", "", 0, <<>>, <<>>, TRUE, "F1") }

NodeIds == {1, 2}
Depths == {0, 1}
ChildIds == {3, 4}
AttrNames == {"disabled"}
AttrValues == {"", "x"}
CharData == {"yo"}
\* what DOM.getAttributes answers: name/value pairs, flattened
RemoteAttrs == {<<>>, <<"disabled", "x">>}
\* what DOM.getBoxModel answers as the content quad, in half pixels
RemoteQuads == {<<>>, <<0, 0, 20, 0, 20, 20, 0, 20>>}

----------------------------------------------------------------------------
\* Locals and results

\* the ready and invalidated flags, as a call finds them
Flags == [ready |-> e.ready, invalidated |-> e.invalidated]

NoFrame ==
    [op |-> "none", node |-> NilNode, depth |-> 0, i |-> 0, sawReady |-> FALSE,
     id |-> 0, name |-> "", value |-> "", attr |-> <<>>, points |-> <<>>,
     issued |-> 0,
     waited |-> FALSE, unlocked |-> {}, timeout |-> FALSE,
     keys |-> 0, err |-> ErrNil, failed |-> {},
     at |-> [ready |-> FALSE, invalidated |-> FALSE]]

NewFrame(op) == [NoFrame EXCEPT !.op = op, !.at = Flags]

NoRet ==
    [op |-> "none", err |-> ErrNil, val |-> "", issued |-> 0, waited |-> FALSE,
     unlocked |-> {}, points |-> <<>>, failed |-> {},
     at |-> [ready |-> FALSE, invalidated |-> FALSE]]

\* the result of the call with locals f
Ret(f, err, val) ==
    [op |-> f.op, err |-> err, val |-> val, issued |-> f.issued,
     waited |-> f.waited, unlocked |-> f.unlocked, points |-> f.points,
     failed |-> f.failed, at |-> f.at]

\* a panic ends the program: no goroutine takes a step after it
Running == ~e.panicked

\* sync.RWMutex: Lock needs no holder at all, RLock needs no writer
CanLock == lock.w = NoThread /\ lock.r = {}
CanRLock == lock.w = NoThread
HoldsLock(t) == lock.w = t \/ t \in lock.r

\* a call that runs from idle to its return in one locked section
Returns(t, op, err, val) ==
    /\ Running
    /\ pc[t] = "idle"
    /\ ret' = [ret EXCEPT ![t] = Ret(NewFrame(op), err, val)]
    /\ UNCHANGED <<pc, frame, b>>

\* the return of a call of several steps
Done(t, f, err, val) ==
    /\ Running
    /\ pc' = [pc EXCEPT ![t] = "idle"]
    /\ frame' = [frame EXCEPT ![t] = NoFrame]
    /\ ret' = [ret EXCEPT ![t] = Ret(f, err, val)]
    /\ UNCHANGED b

Goto(t, label, f) ==
    /\ Running
    /\ pc' = [pc EXCEPT ![t] = label]
    /\ frame' = [frame EXCEPT ![t] = f]
    /\ UNCHANGED <<ret, b>>

\* make(map[string]string)
NoAttrs == [n \in {} |-> ""]

----------------------------------------------------------------------------
\* The engine: scanner.New

\* the default of cfg.NumBrowsers
NumBrowsers == 3

NavUnvisited == "Unvisited"
NavInProcess == "InProcess"
NavVisited == "Visited"
NavFailed == "Failed"

ErrAttackGraph == "attack graph failed to init"
ErrCrawlGraph == "crawl graph failed to init"
ErrPool == "browser pool failed to init"
ErrTake == "context canceled"
ErrCrawler == "crawler failed to init"

\* processEntries, not running
NoCall ==
    [pc |-> "none", entries |-> <<>>, i |-> 0, j |-> 0, attempts |-> 0,
     last |-> "none", err |-> "none"]

\* New(cfg, crawl, attack): the engine with its configuration and the two
\* graphs, the crawl graph holding navs navigations, all Unvisited.
\* Nothing is initialized, no context, no ticker and no pool yet.
New(numBrowsers, navs) ==
    [cfg |-> [NumBrowsers |-> numBrowsers],
     scanContext |-> "nil", ctxDone |-> FALSE,
     attackGraph |-> "new", crawlGraph |-> "new",
     nav |-> [n \in 1..navs |-> NavUnvisited],
     sweeps |-> [n \in 1..navs |-> 0],
     stateMonitor |-> "nil", tick |-> FALSE, ticks |-> 0,
     browsers |-> "nil", leases |-> 0, takes |-> 0, returns |-> 0,
     inits |-> [attackGraph |-> 0, crawlGraph |-> 0, pool |-> 0],
     initErr |-> "none", startRet |-> "none",
     limit |-> 0, idle |-> 0, found |-> FALSE, branch |-> "none",
     entries |-> <<>>,
     stops |-> 0, stopErr |-> "none",
     main |-> "Crawler", signal |-> "none",
     call |-> NoCall,
     exited |-> FALSE, panicked |-> FALSE]

----------------------------------------------------------------------------
\* newElement: the Element is created NotReady with its node id and depth

newElement(nodeID, d) ==
    [attributes |-> NoAttrs, nodeName |-> "", characterData |-> "",
     childNodeCount |-> 0, nodeType |-> 0, depth |-> d, node |-> NilNode,
     readyGate |-> "open", ID |-> nodeID, ready |-> FALSE,
     invalidated |-> FALSE, gateCloses |-> 0, panicked |-> FALSE]

Init ==
    /\ \E id \in NodeIds, d \in Depths : e = newElement(id, d)
    /\ lock = [w |-> NoThread, r |-> {}]
    /\ tab = [exitCh |-> "open"]
    /\ pc = [t \in Threads |-> "idle"]
    /\ frame = [t \in Threads |-> NoFrame]
    /\ ret = [t \in Threads |-> NoRet]
    /\ inflight = [t \in Threads |-> "none"]
    /\ b = New(NumBrowsers, 0)

----------------------------------------------------------------------------
\* The attribute map

\* e.attributes[name] = value
SetAttr(attrs, name, value) ==
    [n \in (DOMAIN attrs) \cup {name} |-> IF n = name THEN value ELSE attrs[n]]

\* delete(e.attributes, name)
DelAttr(attrs, name) == [n \in (DOMAIN attrs) \ {name} |-> attrs[n]]

----------------------------------------------------------------------------
\* populateElement

\* where populateElement goes once i attribute values are stored
AfterAttrs(node, i) ==
    IF i < Len(node.Attributes) THEN "populateElement_attrs"
    ELSE "populateElement_check"

\* lines 103-114: the node data is stored under the write lock
populateElement(t, node, d) ==
    /\ pc[t] = "idle"
    /\ CanLock
    /\ e' = [e EXCEPT !.node = node, !.ID = node.NodeId, !.depth = d,
                      !.nodeType = node.NodeType,
                      !.nodeName = ToLower(node.NodeName),
                      !.childNodeCount = node.ChildNodeCount,
                      !.characterData =
                          IF node.NodeType = NodeText THEN node.NodeValue ELSE @]
    /\ Goto(t, AfterAttrs(node, 0),
            [NewFrame("populateElement") EXCEPT !.node = node, !.depth = d])
    /\ UNCHANGED <<lock, tab, inflight>>

\* lines 116-118: one updateAttribute per name/value pair
populateElement_attrs(t) ==
    LET f == frame[t]
        a == f.node.Attributes
    IN  /\ pc[t] = "populateElement_attrs"
        /\ CanLock
        /\ e' = [e EXCEPT !.attributes = SetAttr(@, a[f.i + 1], a[f.i + 2])]
        /\ Goto(t, AfterAttrs(f.node, f.i + 2), [f EXCEPT !.i = f.i + 2])
        /\ UNCHANGED <<lock, tab, inflight>>

\* populateElement_check with the test of e.ready left out: the gate is
\* closed by every call
populateElement_check_blind(t) ==
    /\ pc[t] = "populateElement_check"
    /\ Goto(t, "populateElement_close", frame[t])
    /\ UNCHANGED <<e, lock, tab, inflight>>

\* line 121: e.ready is read, and the lock is not held
populateElement_check(t) ==
    LET f == frame[t]
    IN  /\ pc[t] = "populateElement_check"
        /\ Goto(t, IF ~e.ready THEN "populateElement_close"
                   ELSE "populateElement_ready",
                [f EXCEPT !.sawReady = e.ready,
                          !.unlocked = @ \cup {"ready"}])
        /\ UNCHANGED <<e, lock, tab, inflight>>

\* close(e.readyGate): closing a closed channel panics
CloseGate(el) ==
    [el EXCEPT !.readyGate = "closed", !.gateCloses = @ + 1,
               !.panicked = (el.readyGate = "closed")]

\* line 122
populateElement_close(t) ==
    /\ pc[t] = "populateElement_close"
    /\ e' = CloseGate(e)
    /\ Goto(t, "populateElement_ready", frame[t])
    /\ UNCHANGED <<lock, tab, inflight>>

\* populateElement_ready of a population that revives the Element
populateElement_ready_revives(t) ==
    /\ pc[t] = "populateElement_ready"
    /\ CanLock
    /\ e' = [e EXCEPT !.ready = TRUE, !.invalidated = FALSE]
    /\ Done(t, frame[t], ErrNil, "")
    /\ UNCHANGED <<lock, tab, inflight>>

\* lines 124-126: ready is set under the write lock
populateElement_ready(t) ==
    /\ pc[t] = "populateElement_ready"
    /\ CanLock
    /\ e' = [e EXCEPT !.ready = TRUE]
    /\ Done(t, frame[t], ErrNil, "")
    /\ UNCHANGED <<lock, tab, inflight>>

----------------------------------------------------------------------------
\* The state of the Element

IsReady == e.ready /\ ~e.invalidated
IsReadyInvalid == e.ready /\ e.invalidated
IsInvalid == e.invalidated

\* setInvalidated(invalid)
setInvalidated(t, invalid) ==
    /\ CanLock
    /\ e' = [e EXCEPT !.invalidated = invalid]
    /\ Returns(t, "setInvalidated", ErrNil, "")
    /\ UNCHANGED <<lock, tab, inflight>>

\* Depth reads e.depth without the lock
Depth(t) ==
    /\ Running
    /\ pc[t] = "idle"
    /\ ret' = [ret EXCEPT ![t] =
                 Ret([NewFrame("Depth") EXCEPT !.unlocked = {"depth"}],
                     ErrNil, e.depth)]
    /\ UNCHANGED <<e, lock, tab, pc, frame, inflight, b>>

----------------------------------------------------------------------------
\* The change events of the Tab, each one section under the write lock

updateAttribute(t, name, value) ==
    /\ CanLock
    /\ e' = [e EXCEPT !.attributes = SetAttr(@, name, value)]
    /\ Returns(t, "updateAttribute", ErrNil, "")
    /\ UNCHANGED <<lock, tab, inflight>>

removeAttribute(t, name) ==
    /\ CanLock
    /\ e' = [e EXCEPT !.attributes = DelAttr(@, name)]
    /\ Returns(t, "removeAttribute", ErrNil, "")
    /\ UNCHANGED <<lock, tab, inflight>>

updateCharacterData(t, newValue) ==
    /\ CanLock
    /\ e' = [e EXCEPT !.characterData = newValue]
    /\ Returns(t, "updateCharacterData", ErrNil, "")
    /\ UNCHANGED <<lock, tab, inflight>>

updateChildNodeCount(t, newValue) ==
    /\ CanLock
    /\ e' = [e EXCEPT !.childNodeCount = newValue]
    /\ Returns(t, "updateChildNodeCount", ErrNil, "")
    /\ UNCHANGED <<lock, tab, inflight>>

\* addChild that puts the child at the head of the list
AddChild_first(el, child) ==
    IF el.node.IsNil THEN el
    ELSE [el EXCEPT !.node.ChildrenNil = FALSE,
                    !.node.Children = <<child>> \o @,
                    !.childNodeCount = @ + 1]

\* the Element after addChild(child): nothing without a node, else the
\* child is appended (to a fresh list when Children is nil)
AddChild(el, child) ==
    IF el.node.IsNil THEN el
    ELSE [el EXCEPT !.node.ChildrenNil = FALSE,
                    !.node.Children = Append(@, child),
                    !.childNodeCount = @ + 1]

addChild(t, child) ==
    /\ CanLock
    /\ Len(e.node.Children) < MaxChildren
    /\ e' = AddChild(e, child)
    /\ Returns(t, "addChild", ErrNil, child)
    /\ UNCHANGED <<lock, tab, inflight>>

\* the range loop of removeChild: the first idx from idx on (counted from
\* 1) whose child has the id, 0 when the loop ends without one
RECURSIVE FindChild(_, _, _)
FindChild(children, removedNodeID, idx) ==
    IF idx > Len(children) THEN 0
    ELSE IF children[idx] = removedNodeID THEN idx
    ELSE FindChild(children, removedNodeID, idx + 1)

\* append(Children[:idx], Children[idx+1:]...), idx counted from 1
CutChild(children, idx) ==
    SubSeq(children, 1, idx - 1) \o SubSeq(children, idx + 1, Len(children))

\* RemoveChild with the counter left alone
RemoveChild_uncounted(el, removedNodeID) ==
    LET idx == FindChild(el.node.Children, removedNodeID, 1)
    IN  IF el.node.IsNil \/ el.node.ChildrenNil \/ idx = 0 THEN el
        ELSE [el EXCEPT !.node.Children = CutChild(@, idx)]

\* the Element after removeChild(removedNodeID)
RemoveChild(el, removedNodeID) ==
    LET idx == FindChild(el.node.Children, removedNodeID, 1)
    IN  IF el.node.IsNil \/ el.node.ChildrenNil \/ idx = 0 THEN el
        ELSE [el EXCEPT !.node.Children = CutChild(@, idx),
                        !.childNodeCount = @ - 1]

removeChild(t, removedNodeID) ==
    /\ CanLock
    /\ e' = RemoveChild(e, removedNodeID)
    /\ Returns(t, "removeChild", ErrNil, removedNodeID)
    /\ UNCHANGED <<lock, tab, inflight>>

----------------------------------------------------------------------------
\* The queries answered from the mirrored data, each one section under the
\* read lock

\* a query that leaves everything but the result alone
Query(t, op, err, val) ==
    /\ CanRLock
    /\ Returns(t, op, err, val)
    /\ UNCHANGED <<e, lock, tab, inflight>>

IsDocument(t) ==
    IF ~e.ready THEN Query(t, "IsDocument", ErrElementNotReady, FALSE)
    ELSE Query(t, "IsDocument", ErrNil, e.nodeType = NodeDocument)

NodeID(t) == Query(t, "NodeID", ErrNil, e.ID)

GetChildNodeIds(t) ==
    IF ~e.ready THEN Query(t, "GetChildNodeIds", ErrElementNotReady, <<>>)
    ELSE IF e.node.IsNil \/ e.node.ChildrenNil
         THEN Query(t, "GetChildNodeIds", ErrElementHasNoChildren, <<>>)
    ELSE Query(t, "GetChildNodeIds", ErrNil, e.node.Children)

\* GetTagName with the test of e.ready left out
GetTagName_unchecked(t) == Query(t, "GetTagName", ErrNil, e.nodeName)

GetTagName(t) ==
    IF ~e.ready THEN Query(t, "GetTagName", ErrElementNotReady, "")
    ELSE Query(t, "GetTagName", ErrNil, e.nodeName)

GetNodeType(t) ==
    IF ~e.ready THEN Query(t, "GetNodeType", ErrElementNotReady, -1)
    ELSE Query(t, "GetNodeType", ErrNil, e.nodeType)

GetCharacterData(t) ==
    IF ~e.ready THEN Query(t, "GetCharacterData", ErrElementNotReady, "")
    ELSE Query(t, "GetCharacterData", ErrNil, e.characterData)

\* enabled unless the disabled attribute is there with "true" or ""
IsEnabled(t) ==
    IF ~e.ready THEN Query(t, "IsEnabled", ErrElementNotReady, FALSE)
    ELSE Query(t, "IsEnabled", ErrNil,
               ~ ("disabled" \in DOMAIN e.attributes
                    /\ e.attributes["disabled"] \in {"true", ""}))

IsSelected(t) ==
    IF ~e.ready THEN Query(t, "IsSelected", ErrElementNotReady, FALSE)
    ELSE Query(t, "IsSelected", ErrNil,
               "checked" \in DOMAIN e.attributes
                   /\ e.attributes["checked"] # "false")

\* FrameID: IsReady, then IsDocument, then the frame id of the node, each
\* under a read lock of its own
FrameID(t) ==
    /\ pc[t] = "idle"
    /\ CanRLock
    /\ IF ~IsReady
       THEN Done(t, NewFrame("FrameID"), ErrElementNotReady, "")
       ELSE Goto(t, "FrameID_isDocument", NewFrame("FrameID"))
    /\ UNCHANGED <<e, lock, tab, inflight>>

FrameID_isDocument(t) ==
    /\ pc[t] = "FrameID_isDocument"
    /\ CanRLock
    /\ IF ~e.ready THEN Done(t, frame[t], ErrElementNotReady, "")
       ELSE IF e.nodeType # NodeDocument THEN Done(t, frame[t], ErrNil, "")
       ELSE Goto(t, "FrameID_frameId", frame[t])
    /\ UNCHANGED <<e, lock, tab, inflight>>

FrameID_frameId(t) ==
    /\ pc[t] = "FrameID_frameId"
    /\ CanRLock
    /\ Done(t, frame[t], ErrNil, e.node.FrameId)
    /\ UNCHANGED <<e, lock, tab, inflight>>

\* GetFrameDocumentNodeID: IsReady, then the content document of the node
GetFrameDocumentNodeID(t) ==
    /\ pc[t] = "idle"
    /\ CanRLock
    /\ IF ~IsReady
       THEN Done(t, NewFrame("GetFrameDocumentNodeID"), ErrElementNotReady, -1)
       ELSE Goto(t, "GetFrameDocumentNodeID_node",
                 NewFrame("GetFrameDocumentNodeID"))
    /\ UNCHANGED <<e, lock, tab, inflight>>

GetFrameDocumentNodeID_node(t) ==
    /\ pc[t] = "GetFrameDocumentNodeID_node"
    /\ CanRLock
    /\ IF ~e.node.IsNil /\ e.node.ContentDocument # 0
       THEN Done(t, frame[t], ErrNil, e.node.ContentDocument)
       ELSE Done(t, frame[t], ErrIncorrectElementType, -1)
    /\ UNCHANGED <<e, lock, tab, inflight>>

\* GetDebuggerDOMNode: IsReady, then the invalidated flag under the read lock
GetDebuggerDOMNode(t) ==
    /\ pc[t] = "idle"
    /\ CanRLock
    /\ IF ~IsReady
       THEN Done(t, NewFrame("GetDebuggerDOMNode"), ErrElementNotReady, NilNode)
       ELSE Goto(t, "GetDebuggerDOMNode_node", NewFrame("GetDebuggerDOMNode"))
    /\ UNCHANGED <<e, lock, tab, inflight>>

GetDebuggerDOMNode_node(t) ==
    /\ pc[t] = "GetDebuggerDOMNode_node"
    /\ CanRLock
    /\ IF e.invalidated THEN Done(t, frame[t], ErrInvalidElement, NilNode)
       ELSE Done(t, frame[t], ErrNil, e.node)
    /\ UNCHANGED <<e, lock, tab, inflight>>

----------------------------------------------------------------------------
\* WaitForReady

\* lines 165-173: ready is read under the read lock; a timer is started
\* when it is false
WaitForReady(t) ==
    /\ pc[t] = "idle"
    /\ CanRLock
    /\ IF e.ready THEN Done(t, NewFrame("WaitForReady"), ErrNil, "ready")
       ELSE Goto(t, "WaitForReady_select",
                 [NewFrame("WaitForReady") EXCEPT !.waited = TRUE])
    /\ UNCHANGED <<e, lock, tab, inflight>>

\* the timer of a waiting call fires after e.tab.elementTimeout
TimerFires(t) ==
    /\ Running
    /\ pc[t] = "WaitForReady_select"
    /\ ~frame[t].timeout
    /\ frame' = [frame EXCEPT ![t].timeout = TRUE]
    /\ UNCHANGED <<e, lock, tab, pc, ret, inflight, b>>

\* the Tab closes its exit channel
TabExits ==
    /\ Running
    /\ tab.exitCh = "open"
    /\ tab' = [tab EXCEPT !.exitCh = "closed"]
    /\ UNCHANGED <<e, lock, pc, frame, ret, inflight, b>>

\* WaitForReady_select whose select has no case for the timer
WaitForReady_select_untimed(t) ==
    /\ pc[t] = "WaitForReady_select"
    /\ \/ /\ e.readyGate = "closed"
          /\ Done(t, frame[t], ErrNil, "readyGate")
       \/ /\ tab.exitCh = "closed"
          /\ Done(t, frame[t], ErrElementNotReady, "exitCh")
    /\ UNCHANGED <<e, lock, tab, inflight>>

\* WaitForReady_select with a timeout that is taken for success
WaitForReady_select_lenient(t) ==
    /\ pc[t] = "WaitForReady_select"
    /\ \/ /\ e.readyGate = "closed"
          /\ Done(t, frame[t], ErrNil, "readyGate")
       \/ /\ frame[t].timeout
          /\ Done(t, frame[t], ErrNil, "timeout")
       \/ /\ tab.exitCh = "closed"
          /\ Done(t, frame[t], ErrElementNotReady, "exitCh")
    /\ UNCHANGED <<e, lock, tab, inflight>>

\* lines 176-183: select takes any one of the cases that can proceed
WaitForReady_select(t) ==
    /\ pc[t] = "WaitForReady_select"
    /\ \/ /\ e.readyGate = "closed"
          /\ Done(t, frame[t], ErrNil, "readyGate")
       \/ /\ frame[t].timeout
          /\ Done(t, frame[t], ErrElementNotReady, "timeout")
       \/ /\ tab.exitCh = "closed"
          /\ Done(t, frame[t], ErrElementNotReady, "exitCh")
    /\ UNCHANGED <<e, lock, tab, inflight>>

----------------------------------------------------------------------------
\* The operations that send a command to the browser

RLock(t) == lock' = [lock EXCEPT !.r = @ \cup {t}]
RUnlock(t) == lock' = [lock EXCEPT !.r = @ \ {t}]

\* the command cmd is sent and the goroutine waits for its answer
Send(t, cmd) == inflight' = [inflight EXCEPT ![t] = cmd]
\* the answer to the command has come
Answered(t) == inflight' = [inflight EXCEPT ![t] = "none"]

\* an operation that takes the read lock and sends cmd with e.ID, the lock
\* still held
SendUnderRLock(t, op, cmd, label) ==
    /\ pc[t] = "idle"
    /\ CanRLock
    /\ RLock(t)
    /\ Send(t, cmd)
    /\ Goto(t, label, [NewFrame(op) EXCEPT !.id = e.ID, !.issued = 1])
    /\ UNCHANGED <<e, tab>>

\* the answer to that command: the read lock is released and the operation
\* returns the answer
AnswerUnderRLock(t, label, vals) ==
    /\ pc[t] = label
    /\ RUnlock(t)
    /\ Answered(t)
    /\ \/ Done(t, frame[t], ErrRemote, "")
       \/ \E v \in vals : Done(t, frame[t], ErrNil, v)
    /\ UNCHANGED <<e, tab>>

\* GetSource, lines 188-190: the node id is read under the read lock
GetSource(t) ==
    /\ pc[t] = "idle"
    /\ CanRLock
    /\ Goto(t, "GetSource_check", [NewFrame("GetSource") EXCEPT !.id = e.ID])
    /\ UNCHANGED <<e, lock, tab, inflight>>

\* lines 192-197: invalidated is read, the lock not held, and
\* DOM.getOuterHTML is sent
GetSource_check(t) ==
    LET f == [frame[t] EXCEPT !.unlocked = @ \cup {"invalidated"}]
    IN  /\ pc[t] = "GetSource_check"
        /\ IF e.invalidated
           THEN Done(t, f, ErrInvalidElement, "") /\ UNCHANGED inflight
           ELSE Goto(t, "GetSource_remote", [f EXCEPT !.issued = 1])
                /\ Send(t, "DOM.getOuterHTML")
        /\ UNCHANGED <<e, lock, tab>>

GetSource_remote(t) ==
    /\ pc[t] = "GetSource_remote"
    /\ Answered(t)
    /\ \/ Done(t, frame[t], ErrRemote, "")
       \/ Done(t, frame[t], ErrNil, "<html>")
    /\ UNCHANGED <<e, lock, tab>>

\* GetEventListeners: the node id is read under the read lock, then
\* DOM.resolveNode and DOMDebugger.getEventListeners are sent
GetEventListeners(t) ==
    /\ pc[t] = "idle"
    /\ CanRLock
    /\ Send(t, "DOM.resolveNode")
    /\ Goto(t, "GetEventListeners_resolve",
            [NewFrame("GetEventListeners") EXCEPT !.id = e.ID, !.issued = 1])
    /\ UNCHANGED <<e, lock, tab>>

GetEventListeners_resolve(t) ==
    /\ pc[t] = "GetEventListeners_resolve"
    /\ \/ Answered(t) /\ Done(t, frame[t], ErrRemote, "")
       \/ /\ Send(t, "DOMDebugger.getEventListeners")
          /\ Goto(t, "GetEventListeners_listeners",
                  [frame[t] EXCEPT !.issued = 2])
    /\ UNCHANGED <<e, lock, tab>>

GetEventListeners_listeners(t) ==
    /\ pc[t] = "GetEventListeners_listeners"
    /\ Answered(t)
    /\ \/ Done(t, frame[t], ErrRemote, "")
       \/ Done(t, frame[t], ErrNil, "listeners")
    /\ UNCHANGED <<e, lock, tab>>

\* GetCSSInlineStyleText: CSS.getInlineStylesForNode under the read lock
GetCSSInlineStyleText(t) ==
    SendUnderRLock(t, "GetCSSInlineStyleText", "CSS.getInlineStylesForNode",
                   "GetCSSInlineStyleText_remote")

GetCSSInlineStyleText_remote(t) ==
    AnswerUnderRLock(t, "GetCSSInlineStyleText_remote", {"cssText"})

\* GetComputedCSSStyle: CSS.getComputedStyleForNode under the read lock
GetComputedCSSStyle(t) ==
    SendUnderRLock(t, "GetComputedCSSStyle", "CSS.getComputedStyleForNode",
                   "GetComputedCSSStyle_remote")

GetComputedCSSStyle_remote(t) ==
    AnswerUnderRLock(t, "GetComputedCSSStyle_remote", {"styles"})

\* where GetAttributes goes once i of the answered values are stored
AfterAnswer(attr, i) ==
    IF i < Len(attr) THEN "GetAttributes_update" ELSE "GetAttributes_return"

\* GetAttributes, lines 492-493: DOM.getAttributes under the read lock
GetAttributes(t) ==
    SendUnderRLock(t, "GetAttributes", "DOM.getAttributes",
                   "GetAttributes_remote")

\* lines 494-498
GetAttributes_remote(t) ==
    /\ pc[t] = "GetAttributes_remote"
    /\ RUnlock(t)
    /\ Answered(t)
    /\ \/ Done(t, frame[t], ErrRemote, NoAttrs)
       \/ \E attr \in RemoteAttrs :
              Goto(t, AfterAnswer(attr, 0), [frame[t] EXCEPT !.attr = attr])
    /\ UNCHANGED <<e, tab>>

\* lines 499-501: one updateAttribute per answered pair
GetAttributes_update(t) ==
    LET f == frame[t]
    IN  /\ pc[t] = "GetAttributes_update"
        /\ CanLock
        /\ e' = [e EXCEPT !.attributes =
                     SetAttr(@, f.attr[f.i + 1], f.attr[f.i + 2])]
        /\ Goto(t, AfterAnswer(f.attr, f.i + 2), [f EXCEPT !.i = f.i + 2])
        /\ UNCHANGED <<lock, tab, inflight>>

\* line 503: the map itself is handed back, read without the lock
GetAttributes_return(t) ==
    /\ pc[t] = "GetAttributes_return"
    /\ Done(t, [frame[t] EXCEPT !.unlocked = @ \cup {"attributes"}],
            ErrNil, e.attributes)
    /\ UNCHANGED <<e, lock, tab, inflight>>

\* SetAttributeValue, lines 530-533: DOM.setAttributeValue is sent under
\* the write lock
SetAttributeValue(t, name, value) ==
    /\ pc[t] = "idle"
    /\ CanLock
    /\ lock' = [lock EXCEPT !.w = t]
    /\ Send(t, "DOM.setAttributeValue")
    /\ Goto(t, "SetAttributeValue_remote",
            [NewFrame("SetAttributeValue") EXCEPT
                 !.id = e.ID, !.name = name, !.value = value, !.issued = 1])
    /\ UNCHANGED <<e, tab>>

\* lines 534-540: the attribute is stored when the browser accepted it,
\* and the write lock is released
SetAttributeValue_remote(t) ==
    LET f == frame[t]
    IN  /\ pc[t] = "SetAttributeValue_remote"
        /\ lock' = [lock EXCEPT !.w = NoThread]
        /\ Answered(t)
        /\ \/ Done(t, f, ErrRemote, "") /\ UNCHANGED e
           \/ /\ e' = [e EXCEPT !.attributes = SetAttr(@, f.name, f.value)]
              /\ Done(t, f, ErrNil, "")
        /\ UNCHANGED tab

\* Focus: DOM.focus under the read lock
Focus(t) == SendUnderRLock(t, "Focus", "DOM.focus", "Focus_remote")

Focus_remote(t) == AnswerUnderRLock(t, "Focus_remote", {""})

\* ScrollTo: DOM.scrollIntoViewIfNeeded under the read lock
ScrollTo(t) ==
    SendUnderRLock(t, "ScrollTo", "DOM.scrollIntoViewIfNeeded",
                   "ScrollTo_remote")

ScrollTo_remote(t) == AnswerUnderRLock(t, "ScrollTo_remote", {""})

\* Dimensions: DOM.getBoxModel under the read lock; the content quad of
\* the answer is returned
Dimensions(t) ==
    SendUnderRLock(t, "Dimensions", "DOM.getBoxModel", "Dimensions_remote")

Dimensions_remote(t) == AnswerUnderRLock(t, "Dimensions_remote", RemoteQuads)

\* Go's integer division, which rounds towards zero (n > 0)
Quot(a, n) == IF a >= 0 THEN a \div n ELSE -((-a) \div n)

\* A float64 coordinate c is held as the integer 2c, so halves of a pixel
\* can be told apart; int(c) drops the fraction.
ToInt(c2) == Quot(c2, 2)

\* the loop of centroid: the sum of int(points[i]) over i, i+2, ... (i
\* counted from 1)
RECURSIVE SumFrom(_, _)
SumFrom(points, i) ==
    IF i > Len(points) THEN 0
    ELSE ToInt(points[i]) + SumFrom(points, i + 2)

\* centroid(points): an odd number of values is an error; the division by
\* pointLen/2 panics when there are no values at all
centroid(points) ==
    LET pointLen == Len(points)
    IN  IF pointLen % 2 # 0
        THEN [x |-> -1, y |-> -1, err |-> ErrInvalidDimensions, panics |-> FALSE]
        ELSE IF pointLen \div 2 = 0
        THEN [x |-> 0, y |-> 0, err |-> ErrNil, panics |-> TRUE]
        ELSE [x |-> Quot(SumFrom(points, 1), pointLen \div 2),
              y |-> Quot(SumFrom(points, 2), pointLen \div 2),
              err |-> ErrNil, panics |-> FALSE]

\* getCenter, line 642: Dimensions is called
getCenter(t) ==
    SendUnderRLock(t, "getCenter", "DOM.getBoxModel", "getCenter_remote")

\* lines 629-645: the answer of Dimensions, one of quads or an error
getCenter_remote(t, quads) ==
    /\ pc[t] = "getCenter_remote"
    /\ RUnlock(t)
    /\ Answered(t)
    /\ \/ Done(t, frame[t], ErrRemote, <<0, 0>>)
       \/ \E points \in quads :
              Goto(t, "getCenter_centroid", [frame[t] EXCEPT !.points = points])
    /\ UNCHANGED <<e, tab>>

\* lines 647-651: the centroid of the quad
getCenter_centroid(t) ==
    LET c == centroid(frame[t].points)
    IN  /\ pc[t] = "getCenter_centroid"
        /\ IF c.panics
           THEN /\ Running
                /\ e' = [e EXCEPT !.panicked = TRUE]
                /\ UNCHANGED <<pc, frame, ret, b>>
           ELSE /\ Done(t, frame[t], c.err,
                        IF c.err = ErrNil THEN <<c.x, c.y>> ELSE <<0, 0>>)
                /\ UNCHANGED e
        /\ UNCHANGED <<lock, tab, inflight>>

\* Clear that sends its command whatever the tag name
Clear_untyped(t) ==
    /\ pc[t] = "idle"
    /\ CanRLock
    /\ IF ~e.ready
       THEN /\ Done(t, NewFrame("Clear"), ErrElementNotReady, "")
            /\ UNCHANGED <<lock, inflight>>
       ELSE /\ RLock(t)
            /\ Send(t, IF e.nodeName = "textarea" THEN "DOM.setNodeValue"
                       ELSE "DOM.setAttributeValue")
            /\ Goto(t, "Clear_remote",
                    [NewFrame("Clear") EXCEPT !.id = e.ID, !.issued = 1])
    /\ UNCHANGED <<e, tab>>

\* Clear, lines 547-563: the command is sent under the read lock
Clear(t) ==
    /\ pc[t] = "idle"
    /\ CanRLock
    /\ IF ~e.ready
       THEN /\ Done(t, NewFrame("Clear"), ErrElementNotReady, "")
            /\ UNCHANGED <<lock, inflight>>
       ELSE IF e.nodeName \in {"textarea", "input"}
       THEN /\ RLock(t)
            /\ Send(t, IF e.nodeName = "textarea" THEN "DOM.setNodeValue"
                       ELSE "DOM.setAttributeValue")
            /\ Goto(t, "Clear_remote",
                    [NewFrame("Clear") EXCEPT !.id = e.ID, !.issued = 1])
       ELSE /\ Done(t, NewFrame("Clear"), ErrIncorrectElementType, "")
            /\ UNCHANGED <<lock, inflight>>
    /\ UNCHANGED <<e, tab>>

Clear_remote(t) == AnswerUnderRLock(t, "Clear_remote", {""})

----------------------------------------------------------------------------
\* SendKeys and SendRawKeys: Focus, Click, then the keys

\* the locals after a step that failed
Failed(f, step) == [f EXCEPT !.failed = @ \cup {step}]

\* SendKeys, line 657: Focus is called, DOM.focus is sent under the read
\* lock
SendKeys(t) == SendUnderRLock(t, "SendKeys", "DOM.focus", "SendKeys_Focus")

\* SendRawKeys, line 666: the same, for keys that encode to so many key
\* events
SendRawKeys(t, keys) ==
    /\ pc[t] = "idle"
    /\ CanRLock
    /\ RLock(t)
    /\ Send(t, "DOM.focus")
    /\ Goto(t, "SendKeys_Focus",
            [NewFrame("SendRawKeys") EXCEPT !.id = e.ID, !.issued = 1,
                                            !.keys = keys])
    /\ UNCHANGED <<e, tab>>

\* lines 657 and 666: Focus returns, and what it returns is dropped
SendKeys_Focus(t) ==
    /\ pc[t] = "SendKeys_Focus"
    /\ RUnlock(t)
    /\ Answered(t)
    /\ \/ Goto(t, "SendKeys_Click", Failed(frame[t], "Focus"))
       \/ Goto(t, "SendKeys_Click", frame[t])
    /\ UNCHANGED <<e, tab>>

\* lines 658 and 667: Click asks getCenter, which asks Dimensions:
\* DOM.getBoxModel is sent under the read lock
SendKeys_Click(t) ==
    /\ pc[t] = "SendKeys_Click"
    /\ CanRLock
    /\ RLock(t)
    /\ Send(t, "DOM.getBoxModel")
    /\ Goto(t, "SendKeys_getCenter", [frame[t] EXCEPT !.issued = @ + 1])
    /\ UNCHANGED <<e, tab>>

\* Click, lines 568-574: an error of getCenter is returned, else the click
\* is sent to the centre
SendKeys_getCenter(t, quads) ==
    /\ pc[t] = "SendKeys_getCenter"
    /\ RUnlock(t)
    /\ \/ /\ Answered(t)
          /\ Done(t, Failed(frame[t], "Dimensions"), ErrRemote, "")
          /\ UNCHANGED e
       \/ \E points \in quads :
            LET c == centroid(points)
                f == [frame[t] EXCEPT !.points = points]
            IN  IF c.panics
                THEN /\ Running
                     /\ Answered(t)
                     /\ e' = [e EXCEPT !.panicked = TRUE]
                     /\ UNCHANGED <<pc, frame, ret, b>>
                ELSE IF c.err # ErrNil
                THEN /\ Answered(t)
                     /\ Done(t, Failed(f, "centroid"), c.err, "")
                     /\ UNCHANGED e
                ELSE /\ Send(t, "Input.dispatchMouseEvent")
                     /\ Goto(t, "SendKeys_tabClick",
                             [f EXCEPT !.issued = @ + 1])
                     /\ UNCHANGED e
    /\ UNCHANGED tab

\* lines 659-662 and 668-671: an error of Click is returned; else SendKeys
\* sends the text and SendRawKeys dispatches its first key event, if any
SendKeys_tabClick(t) ==
    LET f == frame[t]
    IN  /\ pc[t] = "SendKeys_tabClick"
        /\ \/ Answered(t) /\ Done(t, Failed(f, "Click"), ErrRemote, "")
           \/ IF f.op = "SendRawKeys" /\ f.keys = 0
              THEN Answered(t) /\ Done(t, f, ErrNil, "")
              ELSE /\ Send(t, "Input.dispatchKeyEvent")
                   /\ Goto(t, IF f.op = "SendKeys" THEN "SendKeys_tabSendKeys"
                              ELSE "SendRawKeys_dispatch",
                           [f EXCEPT !.issued = @ + 1, !.i = 1])
        /\ UNCHANGED <<e, lock, tab>>

\* SendKeys, line 662: what tab.SendKeys returns is returned
SendKeys_tabSendKeys(t) ==
    /\ pc[t] = "SendKeys_tabSendKeys"
    /\ Answered(t)
    /\ \/ Done(t, Failed(frame[t], "SendKeys"), ErrRemote, "")
       \/ Done(t, frame[t], ErrNil, "")
    /\ UNCHANGED <<e, lock, tab>>

\* SendRawKeys, lines 672-678: the error of each key event overwrites the
\* one before, the next key event is dispatched, and the last error is
\* returned
SendRawKeys_dispatch(t) ==
    /\ pc[t] = "SendRawKeys_dispatch"
    /\ \E err \in {ErrNil, ErrRemote} :
          LET f == IF err = ErrNil THEN [frame[t] EXCEPT !.err = err]
                   ELSE Failed([frame[t] EXCEPT !.err = err], "key")
          IN  IF f.i < f.keys
              THEN /\ Send(t, "Input.dispatchKeyEvent")
                   /\ Goto(t, "SendRawKeys_dispatch",
                           [f EXCEPT !.i = @ + 1, !.issued = @ + 1])
              ELSE Answered(t) /\ Done(t, f, f.err, "")
    /\ UNCHANGED <<e, lock, tab>>

----------------------------------------------------------------------------
\* The engine: Init, Start and Stop of Browserk, as the crawler command
\* calls them

elemVars == <<e, lock, tab, pc, frame, ret, inflight>>

\* the process runs: os.Exit was not called and nothing panicked
Alive == ~b.exited /\ ~b.panicked

\* the contexts a caller hands to Init: context.Background() as the crawler
\* command does, or one its owner can cancel
Contexts == {"background", "cancellable"}

\* Init, lines 40-45: the context is kept and the attack graph is
\* initialized; its error is returned, and the crawler command returns it
BrowserkInit_attackGraph(ctx) ==
    /\ Alive
    /\ b.main = "Crawler"
    /\ \E ok \in BOOLEAN :
          b' = [b EXCEPT !.scanContext = ctx,
                         !.inits.attackGraph = @ + 1,
                         !.attackGraph = IF ok THEN "ok" ELSE "failed",
                         !.initErr = IF ok THEN @ ELSE ErrAttackGraph,
                         !.main = IF ok THEN "Init_crawlGraph" ELSE "returned"]
    /\ UNCHANGED elemVars

\* BrowserkInit_crawlGraph of an Init that logs the error of the crawl graph
\* and goes on
BrowserkInit_crawlGraph_goesOn ==
    /\ Alive
    /\ b.main = "Init_crawlGraph"
    /\ \E ok \in BOOLEAN :
          b' = [b EXCEPT !.inits.crawlGraph = @ + 1,
                         !.crawlGraph = IF ok THEN "ok" ELSE "failed",
                         !.main = "Init_pool"]
    /\ UNCHANGED elemVars

\* lines 47-50: the crawl graph is initialized
BrowserkInit_crawlGraph ==
    /\ Alive
    /\ b.main = "Init_crawlGraph"
    /\ \E ok \in BOOLEAN :
          b' = [b EXCEPT !.inits.crawlGraph = @ + 1,
                         !.crawlGraph = IF ok THEN "ok" ELSE "failed",
                         !.initErr = IF ok THEN @ ELSE ErrCrawlGraph,
                         !.main = IF ok THEN "Init_pool" ELSE "returned"]
    /\ UNCHANGED elemVars

\* lines 51-59: the ticker of the state monitor is started, the pool is
\* created and initialized, and the result of pool.Init is the result of Init
BrowserkInit_pool ==
    /\ Alive
    /\ b.main = "Init_pool"
    /\ \E ok \in BOOLEAN :
          b' = [b EXCEPT !.stateMonitor = "ticking",
                         !.inits.pool = @ + 1,
                         !.browsers = IF ok THEN "ok" ELSE "failed",
                         !.initErr = IF ok THEN ErrNil ELSE ErrPool,
                         !.main = IF ok THEN "Crawler_notify" ELSE "returned"]
    /\ UNCHANGED elemVars

\* crawler.go, lines 81-91: the goroutine of the signal handler is started
Crawler_notify ==
    /\ Alive
    /\ b.main = "Crawler_notify"
    /\ b' = [b EXCEPT !.signal = "waiting", !.main = "Start"]
    /\ UNCHANGED elemVars

\* crawler.go, line 93: Start is called and enters its loop
Start ==
    /\ Alive
    /\ b.main = "Start"
    /\ b' = [b EXCEPT !.main = "Start_select"]
    /\ UNCHANGED elemVars

\* the ticker of the state monitor fires: its channel holds one tick, a
\* tick that finds it full is dropped
TickerFires ==
    /\ Alive
    /\ b.stateMonitor = "ticking"
    /\ b.ticks < MaxTicks
    /\ b' = [b EXCEPT !.tick = TRUE, !.ticks = @ + 1]
    /\ UNCHANGED elemVars

\* the owner of a context that can be cancelled cancels it
CancelContext ==
    /\ Alive
    /\ b.scanContext = "cancellable"
    /\ ~b.ctxDone
    /\ b' = [b EXCEPT !.ctxDone = TRUE]
    /\ UNCHANGED elemVars

\* Start_select with a default case that is taken whatever is ready
Start_select_eager ==
    /\ Alive
    /\ b.main = "Start_select"
    /\ \/ b.ctxDone /\ b' = [b EXCEPT !.main = "Start_done"]
       \/ b.tick /\ b' = [b EXCEPT !.tick = FALSE, !.main = "Start_stateMonitor"]
       \/ b' = [b EXCEPT !.main = "Start_default"]
    /\ UNCHANGED elemVars

\* lines 65-72: select takes one of the channels that are ready, and the
\* default case when none is
Start_select ==
    /\ Alive
    /\ b.main = "Start_select"
    /\ \/ b.ctxDone /\ b' = [b EXCEPT !.main = "Start_done"]
       \/ b.tick /\ b' = [b EXCEPT !.tick = FALSE, !.main = "Start_stateMonitor"]
       \/ ~b.ctxDone /\ ~b.tick /\ b' = [b EXCEPT !.main = "Start_default"]
    /\ UNCHANGED elemVars

\* lines 66-68: the context is done, Start returns nil
Start_done ==
    /\ Alive
    /\ b.main = "Start_done"
    /\ b' = [b EXCEPT !.startRet = ErrNil, !.branch = "Done",
                      !.main = "Crawler_stop"]
    /\ UNCHANGED elemVars

\* lines 69-71: the tick is logged and nothing else; every navigation that
\* is InProcess has lived through one more tick
Start_stateMonitor ==
    /\ Alive
    /\ b.main = "Start_stateMonitor"
    /\ b' = [b EXCEPT !.branch = "stateMonitor",
                      !.sweeps = [n \in DOMAIN b.nav |->
                                     IF b.nav[n] = NavInProcess
                                     THEN b.sweeps[n] + 1 ELSE b.sweeps[n]],
                      !.main = "Start_select"]
    /\ UNCHANGED elemVars

\* crawlGraph.Find(ctx, from, to, limit): the first limit navigations in
\* state from, each as a path of its own, are moved to state to and returned
RECURSIVE Find(_, _, _, _, _)
Find(nav, from, to, limit, n) ==
    IF n \notin DOMAIN nav \/ limit = 0 THEN [nav |-> nav, entries |-> <<>>]
    ELSE IF nav[n] = from
    THEN LET rest == Find([nav EXCEPT ![n] = to], from, to, limit - 1, n + 1)
         IN  [nav |-> rest.nav, entries |-> <<(<<n>>)>> \o rest.entries]
    ELSE Find(nav, from, to, limit, n + 1)

\* lines 72-75: Find is called with cfg.NumBrowsers as its limit, and what
\* it returns is dropped at the end of the iteration
Start_default ==
    LET found == Find(b.nav, NavUnvisited, NavInProcess, b.cfg.NumBrowsers, 1)
    IN  /\ Alive
        /\ b.main = "Start_default"
        /\ b' = [b EXCEPT !.nav = found.nav, !.entries = found.entries,
                          !.limit = b.cfg.NumBrowsers,
                          !.idle = b.cfg.NumBrowsers - b.leases,
                          !.found = TRUE, !.branch = "default",
                          !.main = "Start_select"]
        /\ UNCHANGED elemVars

\* Stop of an engine that stops the ticker of its state monitor
Stop_ticker(s) ==
    IF s.stateMonitor = "nil"
    THEN [s EXCEPT !.panicked = TRUE]
    ELSE [s EXCEPT !.stateMonitor = "stopped", !.stops = @ + 1,
                   !.stopErr = ErrNil]

\* Stop, lines 101-103: the engine after a call of Stop, which returns nil
Stop(s) == [s EXCEPT !.stops = @ + 1, !.stopErr = ErrNil]

\* crawler.go, line 98: Start has returned, Stop is called and its result
\* returned
Crawler_stop ==
    /\ Alive
    /\ b.main = "Crawler_stop"
    /\ b' = [Stop(b) EXCEPT !.main = "returned"]
    /\ UNCHANGED elemVars

\* crawler.go, line 84: a signal arrives
Crawler_signal ==
    /\ Alive
    /\ b.signal = "waiting"
    /\ b' = [b EXCEPT !.signal = "Stop"]
    /\ UNCHANGED elemVars

\* crawler.go, lines 85-89: the handler calls Stop
Crawler_signalStop ==
    /\ Alive
    /\ b.signal = "Stop"
    /\ b' = [Stop(b) EXCEPT !.signal = "Exit"]
    /\ UNCHANGED elemVars

\* crawler.go, line 90: os.Exit(1)
Crawler_exit ==
    /\ Alive
    /\ b.signal = "Exit"
    /\ b' = [b EXCEPT !.exited = TRUE, !.signal = "exited"]
    /\ UNCHANGED elemVars

\* Stop is exported: any other goroutine calls it at any time, before Init
\* too
StopAnytime ==
    /\ Alive
    /\ b.stops < MaxStops
    /\ b' = Stop(b)
    /\ UNCHANGED elemVars

----------------------------------------------------------------------------
\* processEntries.  No line of the engine calls it; the model calls it with
\* what Find returned last.

\* line 81: the loop over the entries begins
processEntries(entries) ==
    /\ Alive
    /\ b.browsers = "ok"
    /\ b.call.pc \in {"none", "returned"}
    /\ b' = [b EXCEPT !.call =
                 [NoCall EXCEPT !.entries = entries, !.i = 1,
                                !.pc = IF Len(entries) = 0 THEN "returned"
                                       ELSE "Take"]]
    /\ UNCHANGED elemVars

\* browsers.Take(ctx): a lease when fewer than NumBrowsers are out; when
\* all are out the call blocks, and fails once the context is done
Take(s) ==
    IF s.leases < s.cfg.NumBrowsers
    THEN [s EXCEPT !.leases = @ + 1, !.takes = @ + 1, !.call.pc = "crawler"]
    ELSE [s EXCEPT !.call.pc = "returned", !.call.err = ErrTake]

\* lines 82-85: a browser is taken; an error ends the call
processEntries_Take ==
    /\ Alive
    /\ b.call.pc = "Take"
    /\ b.leases < b.cfg.NumBrowsers \/ b.ctxDone
    /\ b' = Take(b)
    /\ UNCHANGED elemVars

\* the call after the navigations of entry i: the next entry, or the end
NextEntry(c) ==
    IF c.i < Len(c.entries) THEN [c EXCEPT !.pc = "Take", !.i = @ + 1, !.j = 0]
    ELSE [c EXCEPT !.pc = "returned"]

\* the call before navigation j of entry i
NextNav(c) ==
    IF c.j <= Len(c.entries[c.i]) THEN [c EXCEPT !.pc = "Process"]
    ELSE NextEntry(c)

\* lines 86-89: a crawler is made and initialized; an error ends the call
processEntries_crawler ==
    /\ Alive
    /\ b.call.pc = "crawler"
    /\ \/ b' = [b EXCEPT !.call.pc = "returned", !.call.err = ErrCrawler]
       \/ b' = [b EXCEPT !.call = NextNav([@ EXCEPT !.j = 1])]
    /\ UNCHANGED elemVars

\* lines 91-95: the navigation is processed under a deadline of 45 seconds;
\* its results, the new entries and its error are dropped
processEntries_Process ==
    /\ Alive
    /\ b.call.pc = "Process"
    /\ \E outcome \in {NavVisited, NavFailed, "deadline"} :
          b' = [b EXCEPT !.call =
                    NextNav([@ EXCEPT !.attempts = @ + 1, !.last = outcome,
                                      !.j = @ + 1])]
    /\ UNCHANGED elemVars

----------------------------------------------------------------------------
\* The specifications

\* the change events of the Tab that touch attributes and character data
DataStep(t) ==
    \/ \E name \in AttrNames, value \in AttrValues :
           updateAttribute(t, name, value)
    \/ \E name \in AttrNames : removeAttribute(t, name)
    \/ \E newValue \in CharData : updateCharacterData(t, newValue)

\* the change events of the Tab that touch the children of the node
ChildStep(t) ==
    \/ \E newValue \in 0..MaxCount : updateChildNodeCount(t, newValue)
    \/ \E child \in ChildIds : addChild(t, child)
    \/ \E removedNodeID \in ChildIds : removeChild(t, removedNodeID)

\* the node is removed from the DOM, or the document is replaced
InvalidateStep(t) == \E invalid \in BOOLEAN : setInvalidated(t, invalid)

\* population with one of the nodes, from a document fetch or from a
\* SetChildNodes event
PopulateFrom(t, nodes, depths) ==
    \/ \E node \in nodes, d \in depths : populateElement(t, node, d)
    \/ populateElement_attrs(t)
    \/ populateElement_check(t)
    \/ populateElement_close(t)
    \/ populateElement_ready(t)

PopulateStep(t) == PopulateFrom(t, DOMNodes, Depths)

\* the queries of the caller that send nothing to the browser
QueryStep(t) ==
    \/ Depth(t)
    \/ IsDocument(t)
    \/ NodeID(t)
    \/ GetChildNodeIds(t)
    \/ GetTagName(t)
    \/ GetNodeType(t)
    \/ GetCharacterData(t)
    \/ IsEnabled(t)
    \/ IsSelected(t)
    \/ FrameID(t)
    \/ FrameID_isDocument(t)
    \/ FrameID_frameId(t)
    \/ GetFrameDocumentNodeID(t)
    \/ GetFrameDocumentNodeID_node(t)
    \/ GetDebuggerDOMNode(t)
    \/ GetDebuggerDOMNode_node(t)

\* the operations of the caller that send commands to the browser
RemoteStep(t) ==
    \/ GetSource(t)
    \/ GetSource_check(t)
    \/ GetSource_remote(t)
    \/ GetEventListeners(t)
    \/ GetEventListeners_resolve(t)
    \/ GetEventListeners_listeners(t)
    \/ GetCSSInlineStyleText(t)
    \/ GetCSSInlineStyleText_remote(t)
    \/ GetComputedCSSStyle(t)
    \/ GetComputedCSSStyle_remote(t)
    \/ GetAttributes(t)
    \/ GetAttributes_remote(t)
    \/ GetAttributes_update(t)
    \/ GetAttributes_return(t)
    \/ \E name \in AttrNames, value \in AttrValues :
           SetAttributeValue(t, name, value)
    \/ SetAttributeValue_remote(t)
    \/ Clear(t)
    \/ Clear_remote(t)
    \/ Focus(t)
    \/ Focus_remote(t)
    \/ ScrollTo(t)
    \/ ScrollTo_remote(t)
    \/ Dimensions(t)
    \/ Dimensions_remote(t)

WaitStep(t) ==
    \/ WaitForReady(t)
    \/ TimerFires(t)
    \/ WaitForReady_select(t)

\* One goroutine makes the calls on the Element, one after another.
Next ==
    \/ InvalidateStep("caller")
    \/ DataStep("caller")
    \/ PopulateStep("caller")
    \/ QueryStep("caller")
    \/ RemoteStep("caller")
    \/ WaitStep("caller")
    \/ TabExits

Spec == Init /\ [][Next]_vars

\* One goroutine applies the events that touch the children of the node and
\* reads them back, one call after another.
NextChildren ==
    \/ PopulateStep("events")
    \/ ChildStep("events")
    \/ InvalidateStep("events")
    \/ GetChildNodeIds("events")

SpecChildren == Init /\ [][NextChildren]_vars

\* the nodes sent while the caller is at work: the ones with node id 1
ConcNodes == {node \in DOMNodes : node.NodeId = 1}

\* The caller and the event-delivery path of the Tab run concurrently: the
\* steps of their calls interleave.
NextConc ==
    \/ PopulateFrom("events", ConcNodes, {1})
    \/ InvalidateStep("events")
    \/ \E name \in AttrNames, value \in AttrValues :
           updateAttribute("events", name, value)
    \/ WaitStep("caller")
    \/ Depth("caller")
    \/ GetTagName("caller")
    \/ GetSource("caller")
    \/ GetSource_check("caller")
    \/ GetSource_remote("caller")
    \/ GetAttributes("caller")
    \/ GetAttributes_remote("caller")
    \/ GetAttributes_update("caller")
    \/ GetAttributes_return("caller")
    \/ \E name \in AttrNames, value \in AttrValues :
           SetAttributeValue("caller", name, value)
    \/ SetAttributeValue_remote("caller")
    \/ Dimensions("caller")
    \/ Dimensions_remote("caller")
    \/ TabExits

\* the sequences over S of n values at most
RECURSIVE SeqsUpTo(_, _)
SeqsUpTo(S, n) ==
    IF n = 0 THEN {<<>>}
    ELSE LET shorter == SeqsUpTo(S, n - 1)
         IN  shorter \cup {Append(q, v) : q \in shorter, v \in S}

\* the content quads of the model, in half pixels: every short list of
\* small coordinates, and the square with corners (0,0) and (10,10)
Quads ==
    SeqsUpTo((-MaxHalf)..MaxHalf, MaxPoints)
        \cup {<<0, 0, 20, 0, 20, 20, 0, 20>>}

\* The caller asks for the centre of the Element again and again, and the
\* browser answers with any of the quads.
NextCentroid ==
    \/ getCenter("caller")
    \/ getCenter_remote("caller", Quads)
    \/ getCenter_centroid("caller")

SpecCentroid == Init /\ [][NextCentroid]_vars

\* the Element is the placeholder of node 1, at depth 0
InitConc == Init /\ e = newElement(1, 0)

SpecConc == InitConc /\ [][NextConc]_vars

\* A caller waits for the placeholder of node 1 while the events of the Tab
\* populate and invalidate it, or never do, and the Tab may exit.
NextWait ==
    \/ PopulateFrom("events", ConcNodes, {1})
    \/ InvalidateStep("events")
    \/ WaitStep("caller")
    \/ GetTagName("caller")
    \/ TabExits

SpecWait == InitConc /\ [][NextWait]_vars

\* the timer of line 175 fires once e.tab.elementTimeout has passed, and a
\* goroutine whose select can proceed is scheduled
SpecWaitFair ==
    /\ SpecWait
    /\ WF_vars(TimerFires("caller"))
    /\ WF_vars(WaitForReady_select("caller"))

\* the nodes whose contents Clear can empty, and two it cannot
ClearNodes ==
    { DOMNode(1, NodeElement, "INPUT", "", 0, <<"disabled", "">>, <<>>, TRUE, ""),
      DOMNode(1, NodeElement, "TEXTAREA", "", 0, <<>>, <<>>, TRUE, ""),
      DOMNode(2, NodeElement, "DIV", "", 0, <<>>, <<>>, TRUE, ""),
      DOMNode(2, NodeText, "#text", "hi", 0, <<>>, <<>>, TRUE, "") }

\* The caller clears the Element, populated or not, invalidated or not, one
\* call after another.
NextClear ==
    \/ PopulateFrom("caller", ClearNodes, Depths)
    \/ InvalidateStep("caller")
    \/ GetTagName("caller")
    \/ Clear("caller")
    \/ Clear_remote("caller")

SpecClear == Init /\ [][NextClear]_vars

\* the content quads the browser answers when keys are sent: none, three
\* values, and the square
KeyQuads == RemoteQuads \cup {<<0, 0, 20>>}

\* The caller sends keys to the Element, populated or not, one call after
\* another.
NextKeys ==
    \/ PopulateStep("caller")
    \/ SendKeys("caller")
    \/ \E keys \in 0..MaxKeys : SendRawKeys("caller", keys)
    \/ SendKeys_Focus("caller")
    \/ SendKeys_Click("caller")
    \/ SendKeys_getCenter("caller", KeyQuads)
    \/ SendKeys_tabClick("caller")
    \/ SendKeys_tabSendKeys("caller")
    \/ SendRawKeys_dispatch("caller")

SpecKeys == InitConc /\ [][NextKeys]_vars

\* Two goroutines populate the Element at the same time: one with the
\* answer of a document fetch, one with a SetChildNodes event.
NextPopulate ==
    \/ PopulateFrom("events", ConcNodes, Depths)
    \/ PopulateFrom("caller", ConcNodes, Depths)

SpecPopulate == InitConc /\ [][NextPopulate]_vars

\* The crawler command runs the engine: the main goroutine, the goroutine
\* of the signal handler, the ticker, the owner of the context, and callers
\* of Stop.  The configuration sets NumBrowsers and the graph is seeded.
InitScan ==
    /\ \E numBrowsers \in 1..MaxBrowsers, navs \in 0..MaxNavs :
          b = New(numBrowsers, navs)
    /\ e = newElement(1, 0)
    /\ lock = [w |-> NoThread, r |-> {}]
    /\ tab = [exitCh |-> "open"]
    /\ pc = [t \in Threads |-> "idle"]
    /\ frame = [t \in Threads |-> NoFrame]
    /\ ret = [t \in Threads |-> NoRet]
    /\ inflight = [t \in Threads |-> "none"]

\* the steps of the loop of Start
StartLoop ==
    \/ Start_select
    \/ Start_done
    \/ Start_stateMonitor
    \/ Start_default

NextScan ==
    \/ \E ctx \in Contexts : BrowserkInit_attackGraph(ctx)
    \/ BrowserkInit_crawlGraph
    \/ BrowserkInit_pool
    \/ Crawler_notify
    \/ Start
    \/ StartLoop
    \/ Crawler_stop
    \/ Crawler_signal
    \/ Crawler_signalStop
    \/ Crawler_exit
    \/ TickerFires
    \/ CancelContext
    \/ StopAnytime

SpecScan == InitScan /\ [][NextScan]_vars

\* the main goroutine is scheduled: a step of the loop that can be taken is
\* taken
SpecScanFair == SpecScan /\ WF_vars(StartLoop)

\* The engine is initialized and Start runs its loop, no signal arrives,
\* and processEntries is called on what Find returned.
NextProcess ==
    \/ \E ctx \in Contexts : BrowserkInit_attackGraph(ctx)
    \/ BrowserkInit_crawlGraph
    \/ BrowserkInit_pool
    \/ Crawler_notify
    \/ Start
    \/ StartLoop
    \/ Crawler_stop
    \/ TickerFires
    \/ CancelContext
    \/ processEntries(b.entries)
    \/ processEntries_Take
    \/ processEntries_crawler
    \/ processEntries_Process

SpecProcess == InitScan /\ [][NextProcess]_vars

----------------------------------------------------------------------------
\* The claims

\* goroutine t makes the call op, which runs in one step, or returns from it
Called(t, op) == pc'[t] = "idle" /\ ret'[t].op = op /\ UNCHANGED tab

\* C1: populateElement calls applied one after another close the readiness
\* gate exactly once, in the first call: ready is true from the return of
\* the first call on and never reset, the gate is never closed again, and
\* every call, the later ones too, leaves the name, type, child count, depth
\* and attributes of its node in the Element.
C1_PopulateOnce ==
    [][ /\ e.ready => e'.ready /\ e'.gateCloses = e.gateCloses
        /\ e'.gateCloses <= 1
        /\ ~e'.panicked
        /\ \A t \in Threads :
              pc[t] = "populateElement_ready" /\ pc'[t] = "idle" =>
                  LET node == frame[t].node
                  IN  /\ e'.ready
                      /\ e'.gateCloses = 1
                      /\ e'.readyGate = "closed"
                      /\ e'.nodeName = ToLower(node.NodeName)
                      /\ e'.nodeType = node.NodeType
                      /\ e'.childNodeCount = node.ChildNodeCount
                      /\ e'.depth = frame[t].depth
                      /\ \A k \in 1..(Len(node.Attributes) \div 2) :
                            /\ node.Attributes[2 * k - 1] \in DOMAIN e'.attributes
                            /\ e'.attributes[node.Attributes[2 * k - 1]]
                                  = node.Attributes[2 * k]
      ]_vars

\* a later populateElement call, on an Element already ready, has returned
\* with new node data and the gate was closed once
C1_Witness ==
    /\ pc["caller"] = "idle"
    /\ ret["caller"].op = "populateElement"
    /\ ret["caller"].at.ready
    /\ e.nodeName = "div"
    /\ e.gateCloses = 1

\* C2: WaitForReady on an Element found ready returns success without
\* waiting; a call that returns while the readiness gate is still open (no
\* population yet) waited and returns the not-ready error, after its timer
\* fired or the exit channel of the tab was closed; a call that waited
\* returns success only with the gate released.
C2_WaitForReady ==
    \A t \in Threads :
        /\ pc[t] = "WaitForReady_select" => ~frame[t].at.ready
        /\ ret[t].op = "WaitForReady" =>
              /\ ret[t].at.ready => ret[t].err = ErrNil /\ ~ret[t].waited
              /\ e.readyGate = "open" =>
                    /\ ret[t].err = ErrElementNotReady
                    /\ ret[t].waited
                    /\ ret[t].val \in {"timeout", "exitCh"}
              /\ ret[t].err = ErrNil /\ ret[t].waited =>
                    e.readyGate = "closed" /\ ret[t].val = "readyGate"
              /\ ret[t].val = "exitCh" => tab.exitCh = "closed"
              /\ ret[t].err \in {ErrNil, ErrElementNotReady}

\* a waiting call has returned the not-ready error for the exit channel,
\* before any population
C2_Witness ==
    /\ ret["caller"].op = "WaitForReady"
    /\ ret["caller"].err = ErrElementNotReady
    /\ ret["caller"].val = "exitCh"
    /\ e.readyGate = "open"
    /\ pc["events"] = "idle"

\* the queries answered from the mirrored data
LocalQueries ==
    {"IsDocument", "GetChildNodeIds", "GetTagName", "GetNodeType",
     "GetCharacterData", "IsEnabled", "IsSelected", "FrameID",
     "GetFrameDocumentNodeID", "GetDebuggerDOMNode"}

\* the queries answered by the browser
RemoteQueries ==
    {"GetSource", "GetEventListeners", "GetCSSInlineStyleText",
     "GetComputedCSSStyle", "GetAttributes", "Dimensions"}

CallerOps ==
    LocalQueries \cup RemoteQueries
        \cup {"WaitForReady", "SetAttributeValue", "Clear", "Focus",
              "ScrollTo", "getCenter"}

\* C4: an operation called on an invalidated Element fails locally, with
\* no remote command; GetTagName, GetNodeType, GetCharacterData,
\* GetDebuggerDOMNode and GetSource on a populated and then invalidated
\* Element do not succeed.
C4_InvalidatedFails ==
    \A t \in Threads :
        ret[t].op \in CallerOps /\ ret[t].at.invalidated =>
            /\ ret[t].err \notin {ErrNil, ErrRemote}
            /\ ret[t].issued = 0

\* C5: once the Element is invalidated, IsInvalid stays true whatever is
\* called on it.
C5_InvalidatedForGood == [][e.invalidated => e'.invalidated]_vars

\* C6, as claimed: the invalidated flag is never set on an Element that is
\* not ready.
C6_ThreeStates == e.invalidated => e.ready

\* C6, amended: the ready flag, once set, stays set; the invalidated flag is
\* changed by setInvalidated alone, which sets it whatever the ready flag
\* is and leaves the ready flag as it was.  So the Element is NotReady,
\* Ready, ReadyInvalidated, or an invalidated placeholder that is not ready.
C6_FlagSteps ==
    [][ /\ e.ready => e'.ready
        /\ e'.invalidated # e.invalidated =>
              /\ \E t \in Threads : pc[t] = "idle" /\ Called(t, "setInvalidated")
              /\ e'.ready = e.ready
      ]_vars

\* a placeholder has been invalidated before it was populated
C6_Witness ==
    /\ ret["caller"].op = "setInvalidated"
    /\ e.invalidated
    /\ ~e.ready
    /\ e.readyGate = "open"

\* C7: removeChild(id) takes the first child with that id out of the
\* children list, the others keeping their order, and lowers childNodeCount
\* by one; without a node, without a children list or without such a child
\* it leaves both alone.
C7_RemoveChild ==
    [][ \A t \in Threads :
          pc[t] = "idle" /\ Called(t, "removeChild") =>
              LET id == ret'[t].val
                  old == e.node.Children
                  new == e'.node.Children
              IN  IF ~e.node.IsNil /\ ~e.node.ChildrenNil
                        /\ \E i \in 1..Len(old) : old[i] = id
                  THEN /\ Len(new) = Len(old) - 1
                       /\ \E i \in 1..Len(old) :
                             /\ old[i] = id
                             /\ \A j \in 1..(i - 1) : old[j] # id /\ new[j] = old[j]
                             /\ \A j \in i..Len(new) : new[j] = old[j + 1]
                       /\ e'.childNodeCount = e.childNodeCount - 1
                  ELSE /\ new = old
                       /\ e'.node.ChildrenNil = e.node.ChildrenNil
                       /\ e'.childNodeCount = e.childNodeCount
      ]_vars

\* one of two children with the same id has been removed: the other one is
\* still in the list
C7_Witness ==
    /\ pc["events"] = "idle"
    /\ ret["events"].op = "removeChild"
    /\ \E i \in 1..Len(e.node.Children) : e.node.Children[i] = ret["events"].val
    /\ Len(e.node.Children) = 2

\* C8: centroid answers an odd number of values with the invalid-dimensions
\* error and an even number with the mean of the x values and the mean of
\* the y values, as integers; the square with corners (0,0) and (10,10) has
\* the centre (5,5).
C8_Centroid ==
    \A t \in Threads :
        /\ pc[t] = "getCenter_centroid" => ~e.panicked
        /\ ret[t].op = "getCenter" /\ ret[t].err # ErrRemote =>
              LET points == ret[t].points
                  n == Len(points) \div 2
              IN  IF Len(points) % 2 # 0
                  THEN ret[t].err = ErrInvalidDimensions
                  ELSE /\ ret[t].err = ErrNil
                       /\ n > 0
                       /\ ret[t].val[1] = Quot(SumFrom(points, 1), n)
                       /\ ret[t].val[2] = Quot(SumFrom(points, 2), n)
                       /\ points = <<0, 0, 20, 0, 20, 20, 0, 20>> =>
                             ret[t].val = <<5, 5>>

\* C9: no goroutine holds the lock of the Element, for reading or for
\* writing, while a remote command it sent is in flight.
C9_NoLockAcrossRemote ==
    \A t \in Threads : inflight[t] # "none" => ~HoldsLock(t)

\* C10: every read and every write of the fields of the Element is made
\* with the lock held.
C10_EveryAccessLocked ==
    \A t \in Threads : frame[t].unlocked = {} /\ ret[t].unlocked = {}

\* Start is in its loop
InLoop == b.main \in {"Start_select", "Start_stateMonitor", "Start_default"}

\* the navigations in the state st
NavsIn(st) == {n \in DOMAIN b.nav : b.nav[n] = st}

\* C11: once Stop has been called on the initialized engine while Start
\* runs its loop, the cancellation of the scan is signalled (the context
\* Start selects on is done, so that the loop returns), and no lease is
\* out when Stop has returned.
C11_StopCancels ==
    b.stops > 0 /\ InLoop => b.ctxDone /\ b.leases = 0

\* C12: at the end of a cycle of the loop of Start that called Find, every
\* navigation Find claimed is Visited or Failed, none is InProcess, and one
\* browser was taken and returned for each of them.
C12_ClaimedIsReported ==
    b.found /\ b.main = "Start_select" =>
        /\ NavsIn(NavInProcess) = {}
        /\ b.takes = Cardinality(NavsIn(NavVisited) \cup NavsIn(NavFailed))
        /\ b.returns = b.takes

\* C13: when processEntries has returned, with or without an error, every
\* browser it took is back in the pool.
C13_LeasesReturned ==
    b.call.pc = "returned" => b.leases = 0 /\ b.returns = b.takes

\* C14: the limit Start passes to Find is the number of browsers idle at
\* that moment, and the navigations InProcess never outnumber the browsers
\* of the pool.
C14_BatchFitsLeases ==
    /\ b.limit = b.idle
    /\ Cardinality(NavsIn(NavInProcess)) <= b.cfg.NumBrowsers - b.leases

\* C15: Init calls the Init of the attack graph, of the crawl graph and of
\* the pool once each, in this order, stops at the first that fails and
\* returns its error: after a failure of a graph no ticker and no pool
\* exist, and after a failed Init the crawler command has returned, Start
\* never ran and no navigation was claimed.
C15_InitFailsFast ==
    /\ b.inits.attackGraph <= 1 /\ b.inits.crawlGraph <= 1 /\ b.inits.pool <= 1
    /\ b.attackGraph = "failed" =>
          /\ b.initErr = ErrAttackGraph
          /\ b.inits.crawlGraph = 0 /\ b.crawlGraph = "new"
    /\ b.crawlGraph = "failed" => b.initErr = ErrCrawlGraph
    /\ b.attackGraph # "ok" \/ b.crawlGraph # "ok" =>
          /\ b.inits.pool = 0
          /\ b.browsers = "nil"
          /\ b.stateMonitor = "nil"
    /\ b.browsers = "failed" => b.initErr = ErrPool
    /\ b.initErr = ErrNil =>
          b.attackGraph = "ok" /\ b.crawlGraph = "ok" /\ b.browsers = "ok"
    /\ b.initErr \notin {"none", ErrNil} =>
          /\ b.main = "returned"
          /\ b.startRet = "none" /\ b.branch = "none" /\ ~b.found
          /\ NavsIn(NavUnvisited) = DOMAIN b.nav
          /\ b.takes = 0
    /\ b.main \notin {"Crawler", "Init_crawlGraph", "Init_pool", "returned"} =>
          b.initErr = ErrNil

\* the crawl graph failed to initialize with work in it, and the crawler
\* command returned
C15_Witness ==
    /\ b.crawlGraph = "failed"
    /\ b.attackGraph = "ok"
    /\ b.main = "returned"
    /\ b.initErr = ErrCrawlGraph
    /\ b.nav # <<>>

\* C16: a navigation is not left InProcess by tick after tick of the state
\* monitor: the sweep of a tick reverts the navigations that are InProcess
\* for too long, here for as many ticks as the model follows.
C16_StaleReverted ==
    \A n \in DOMAIN b.nav : b.nav[n] = NavInProcess => b.sweeps[n] < MaxTicks

\* C17: a tick of the state monitor that is waiting while Start runs its
\* loop is taken by the loop (or the scan is cancelled, or the process
\* ends), whatever the default branch finds to do.
C17_TickHandled ==
    (b.tick /\ InLoop) ~> (~b.tick \/ b.ctxDone \/ ~Alive)

\* the loop has taken a tick after a call of Find, with navigations still
\* Unvisited in the graph
C17_Witness ==
    /\ b.branch = "stateMonitor"
    /\ b.found
    /\ NavsIn(NavUnvisited) # {}
    /\ ~b.ctxDone

\* what Stop has no business with: the engine without the record of the
\* calls of Stop and of where its callers stand
Stopless(s) ==
    [s EXCEPT !.stops = 0, !.stopErr = "none", !.main = "none",
              !.signal = "none"]

\* C18: every call of Stop, before Init, while Start runs, after Start
\* returned, from the signal handler or from the main goroutine, returns
\* nil, does not crash and leaves the engine as it was, so that any number
\* of calls leaves it as one call does.
C18_StopIdempotent ==
    [][ /\ ~b'.panicked
        /\ b'.stops # b.stops =>
              /\ b'.stopErr = ErrNil
              /\ Stopless(b') = Stopless(b)
      ]_vars

\* Stop was called before Init, and again after Start returned
C18_Witness ==
    /\ b.stops >= 3
    /\ b.startRet = ErrNil
    /\ b.main = "returned"
    /\ b.stopErr = ErrNil

\* C19: SendKeys and SendRawKeys return an error whenever a step they made
\* failed: Focus, the box model or its centre, the click, the text or any
\* one of the key events.
C19_NoErrorSwallowed ==
    \A t \in Threads :
        ret[t].op \in {"SendKeys", "SendRawKeys"} /\ ret[t].failed # {} =>
            ret[t].err # ErrNil

\* C20: however the steps of two populateElement calls on the Element
\* interleave, the readyGate is closed once at most and the second close,
\* which panics, does not happen.
C20_GateClosedOnce == e.gateCloses <= 1 /\ ~e.panicked

\* C21: a call of WaitForReady that waits in the select of lines 176-183
\* returns: when the element is never populated the timer or the exit signal
\* of the Tab releases the caller.
C21_WaitReturns ==
    pc["caller"] = "WaitForReady_select" ~> pc["caller"] = "idle"

\* the caller was released by the timer: the gate and the exit channel are
\* still open
C21_Witness ==
    /\ ret["caller"].op = "WaitForReady"
    /\ ret["caller"].val = "timeout"
    /\ ret["caller"].err = ErrElementNotReady
    /\ e.readyGate = "open"
    /\ tab.exitCh = "open"

\* C22: Clear on an Element that is not ready returns the not-ready error,
\* and on a ready Element whose tag name is neither "textarea" nor "input"
\* the incorrect-element-type error, both without a command sent; on a ready
\* textarea it sends DOM.setNodeValue and on a ready input
\* DOM.setAttributeValue, one command and no more.
C22_Clear ==
    [][\A t \in Threads :
        /\ (pc[t] = "idle" /\ pc'[t] = "idle" /\ ret'[t].op = "Clear"
                /\ (ret'[t] # ret[t] \/ ret[t].op = "Clear")
                /\ e' = e /\ tab' = tab)
            => /\ ret'[t].issued = 0
               /\ inflight'[t] = "none"
               /\ ret'[t].err =
                      IF ~e.ready THEN ErrElementNotReady
                      ELSE ErrIncorrectElementType
               /\ e.ready => e.nodeName \notin {"textarea", "input"}
        /\ (pc[t] = "idle" /\ pc'[t] = "Clear_remote")
            => /\ e.ready
               /\ frame'[t].issued = 1
               /\ inflight[t] = "none"
               /\ \/ e.nodeName = "textarea"
                     /\ inflight'[t] = "DOM.setNodeValue"
                  \/ e.nodeName = "input"
                     /\ inflight'[t] = "DOM.setAttributeValue"
        /\ pc[t] = "Clear_remote"
            => /\ inflight'[t] \in {inflight[t], "none"}
               /\ pc'[t] \in {"Clear_remote", "idle"}
               /\ pc'[t] = "idle"
                    => /\ ret'[t].op = "Clear"
                       /\ ret'[t].issued = 1
                       /\ ret'[t].err \in {ErrNil, ErrRemote}
    ]_vars

\* a ready textarea was cleared with one command
C22_Witness ==
    /\ ret["caller"].op = "Clear"
    /\ ret["caller"].issued = 1
    /\ ret["caller"].err = ErrNil
    /\ e.ready
    /\ e.nodeName = "textarea"
    /\ pc["caller"] = "idle"

\* C23: when WaitForReady has returned success the ready flag of the Element
\* is true, so that a query that needs a ready Element made next by the same
\* caller does not return the not-ready error, whatever populateElement does
\* at the same time.
C23_ReadyAfterWait ==
    \A t \in Threads :
        (ret[t].op = "WaitForReady" /\ ret[t].err = ErrNil /\ pc[t] = "idle")
            => e.ready

\* C24: centroid returns for every list of values, the empty list too: the
\* program does not panic, and getCenter ends with a coordinate pair and no
\* error, with the invalid-dimensions error, or with the error of the
\* browser.
C24_CentroidTotal ==
    /\ ~e.panicked
    /\ \A t \in Threads :
          ret[t].op = "getCenter" =>
              ret[t].err \in {ErrNil, ErrInvalidDimensions, ErrRemote}

\* the child ids of the Element el
ChildIdsOf(el) == el.node.Children

\* the Element after addChild(c) and then removeChild(c)
AddThenRemove(el, c) == RemoveChild(AddChild(el, c), c)

\* C25 as stated: addChild(c) and then removeChild(c.NodeId) leave the
\* sequence of child ids and childNodeCount as they were before addChild,
\* whatever the children of the Element, one with the id of c among them.
C25_RoundTrip ==
    \A c \in ChildIds :
        /\ ChildIdsOf(AddThenRemove(e, c)) = ChildIdsOf(e)
        /\ AddThenRemove(e, c).childNodeCount = e.childNodeCount

\* C25: addChild(c) and then removeChild(c.NodeId) leave childNodeCount and
\* the number of children as they were and change no other field; the
\* sequence of child ids is as it was when no child had the id of c, and
\* else the first child with that id is gone and c is the last child.  A
\* nil list of children is an empty list afterwards; an Element without a
\* node is left as it was.
C25_RoundTripFirstMatch ==
    \A c \in ChildIds :
        LET after == AddThenRemove(e, c)
            ids == ChildIdsOf(e)
            i == FindChild(ids, c, 1)
        IN  /\ after.childNodeCount = e.childNodeCount
            /\ Len(ChildIdsOf(after)) = Len(ids)
            /\ ChildIdsOf(after) =
                   IF e.node.IsNil \/ i = 0 THEN ids
                   ELSE Append(CutChild(ids, i), c)
            /\ after.node.ChildrenNil = (e.node.IsNil /\ e.node.ChildrenNil)
            /\ after = [e EXCEPT !.node.Children = ChildIdsOf(after),
                                 !.node.ChildrenNil = after.node.ChildrenNil]

\* c was added to children that held its id and then removed: the first
\* child with the id is gone and c is the last child
C25_Witness ==
    /\ ret["events"].op = "removeChild"
    /\ Len(e.node.Children) >= 2
    /\ e.node.Children[Len(e.node.Children)] = ret["events"].val
    /\ e.childNodeCount = Len(e.node.Children)
====
